---- MODULE Spec2Model ----
(***************************************************************************)
(* Collider signaling relay: the per-connection dispatch loop (wsHandler)  *)
(* and the administrative HTTP handler of src/collider/collider.go,        *)
(* running against the Room Table and the Client Directory.                *)
(*                                                                         *)
(* collider.go only calls the Room Table (register, send, deregister,      *)
(* remove, removeRoom), client.sendByID and the registration timer; they   *)
(* are defined in other files of the package, and the operators rt* and    *)
(* sendByID and the action TimerFire follow the design document (4.1,      *)
(* 4.2, 5): every Room Table operation is atomic (one mutual-exclusion     *)
(* domain) and writes to connections as part of the operation.             *)
(***************************************************************************)
EXTENDS Integers, Sequences, FiniteSets, TLC

\* ---------------------------------------------------------------- universe
Conns == {"w1", "w2", "w3"}          \* WebSocket connections (one wsHandler each)
RoomIDs == {"r1", "r2"}              \* non-empty room identifiers
ClientIDs == {"a", "b", "c"}         \* non-empty client identifiers
\* Spec runs two connections over two rooms; SpecRooms runs three connections
\* and three clients over one room, so that a room can be asked for a third member.
TwoConns == {"w1", "w2"}
TwoClients == {"a", "b"}
OneRoom == {"r1"}
Ancillary == {"video_chat", "audio_chat", "chat"}
NoStr == ""                          \* the empty string of a missing JSON field
NoMsg == 0                           \* an empty payload
Payloads == {NoMsg, 1}               \* payloads read from the wire
MaxQueue == 2                        \* pending messages a room holds in a run

\* nil *client
NilClient == [id |-> NoStr, room |-> NoStr, rwc |-> NoStr]

EmptyMap == [k \in {} |-> NoStr]
Put(f, k, v) == [x \in DOMAIN f \cup {k} |-> IF x = k THEN v ELSE f[x]]
Drop(f, S) == [x \in DOMAIN f \ S |-> f[x]]

VARIABLES
    rooms,               \* roomTable.rooms: RoomID -> [clients, queue, timer]
    registered_clients,  \* the Client Directory: ClientID -> client record
    pc,                  \* per connection: "loop", "lookup" or "closed"
    registered,          \* wsHandler local `registered`
    rid,                 \* wsHandler local `rid`
    cid,                 \* wsHandler local `cid`
    thisClient,          \* wsHandler local `thisClient`
    deferred,            \* wsHandler: a deferred deregister(rid, cid) is pending
    out,                 \* payloads the last step wrote to connections, in order
    ev                   \* the event handled by the last step and its outcome

vars == <<rooms, registered_clients, pc, registered, rid, cid, thisClient,
          deferred, out, ev>>

locals == <<registered, rid, cid, thisClient, deferred>>

\* ------------------------------------------------------------- Room Table
\* The shared state a Room Table operation starts from; it has written nothing yet.
RT == [rooms |-> rooms, dir |-> registered_clients, out |-> <<>>]

Result(rs, d, o, e) == [rooms |-> rs, dir |-> d, out |-> o, err |-> e]
Same(rt, e) == Result(rt.rooms, rt.dir, rt.out, e)

Members(rs, r) == IF r \in DOMAIN rs THEN DOMAIN rs[r].clients ELSE {}

\* Write every message of q, in order, to connection ws.
Deliver(o, ws, q) ==
    o \o [i \in 1..Len(q) |-> [to |-> ws, kind |-> q[i].kind, msg |-> q[i].msg]]

\* Mutant of RoomIsFull: membership is not capped.
RoomIsNeverFull(rs, r) == FALSE

\* A Room holds at most two members.
RoomIsFull(rs, r) == Cardinality(Members(rs, r)) >= 2

\* Mutant of Drain: the pending messages are written newest first.
DrainNewestFirst(o, ws, q) ==
    Deliver(o, ws, [i \in 1..Len(q) |-> q[Len(q) + 1 - i]])

\* Every Pending Message goes to the newly joined connection, in FIFO order.
Drain(o, ws, q) == Deliver(o, ws, q)

\* register(roomID, clientID, connection)
rtRegister(rt, r, c, ws) ==
    IF r = NoStr \/ c = NoStr THEN Same(rt, "InvalidRequest")
    ELSE IF c \in DOMAIN rt.dir THEN Same(rt, "DuplicateRegistration")
    ELSE IF RoomIsFull(rt.rooms, r) THEN Same(rt, "RoomFull")
    ELSE LET rec == [id |-> c, room |-> r, rwc |-> ws] IN
         IF r \notin DOMAIN rt.rooms
         THEN \* first member: create the room, start the timer
              Result(Put(rt.rooms, r, [clients |-> Put(EmptyMap, c, ws),
                                       queue |-> <<>>, timer |-> TRUE]),
                     Put(rt.dir, c, rec), rt.out, NoStr)
         ELSE \* second member: cancel the timer, drain the queue to ws
              Result([rt.rooms EXCEPT ![r] =
                         [clients |-> Put(@.clients, c, ws),
                          queue |-> <<>>, timer |-> FALSE]],
                     Put(rt.dir, c, rec),
                     Drain(rt.out, ws, rt.rooms[r].queue), NoStr)

\* send(roomID, originClientID, kind, payload)
rtSend(rt, r, src, kind, m) ==
    IF src \notin Members(rt.rooms, r) THEN Same(rt, "NotRegistered")
    ELSE LET others == Members(rt.rooms, r) \ {src}
             msg == [kind |-> kind, msg |-> m] IN
         IF others # {}
         THEN LET o == CHOOSE o \in others : TRUE IN
              Result(rt.rooms, rt.dir,
                     Deliver(rt.out, rt.rooms[r].clients[o], <<msg>>), NoStr)
         ELSE Result([rt.rooms EXCEPT ![r].queue = Append(@, msg)],
                     rt.dir, rt.out, NoStr)

\* deregister(roomID, clientID)
rtDeregister(rt, r, c) ==
    IF c \notin Members(rt.rooms, r) THEN Same(rt, NoStr)
    ELSE IF Members(rt.rooms, r) = {c}
         THEN Result(Drop(rt.rooms, {r}), Drop(rt.dir, {c}), rt.out, NoStr)
         ELSE Result([rt.rooms EXCEPT ![r] =
                         [clients |-> Drop(@.clients, {c}),
                          queue |-> @.queue, timer |-> TRUE]],
                     Drop(rt.dir, {c}), rt.out, NoStr)

\* remove(roomID, clientID): same effect as deregister
rtRemove(rt, r, c) == rtDeregister(rt, r, c)

\* Mutant of rtRemoveRoom: the members stay in the Directory.
rtRemoveRoomKeepsDirectory(rt, r) ==
    Result(Drop(rt.rooms, {r}), rt.dir, rt.out, NoStr)

\* removeRoom(roomID)
rtRemoveRoom(rt, r) ==
    Result(Drop(rt.rooms, {r}), Drop(rt.dir, Members(rt.rooms, r)),
           rt.out, NoStr)

\* client.sendByID(targetClientID, kind, payload)
sendByID(rt, to, kind, m) ==
    IF to \in DOMAIN rt.dir
    THEN Result(rt.rooms, rt.dir,
                Deliver(rt.out, rt.dir[to].rwc, <<[kind |-> kind, msg |-> m]>>),
                NoStr)
    ELSE Same(rt, "PeerOffline")

\* ------------------------------------------------------------------ state
\* cmd: the command or trigger; conn: the connection it arrived on; reg: the
\* connection's `registered` before; wf: the fields the command needs are all
\* non-empty; ret: what the Room Table call returned ("none": no call); err: the
\* error text written to conn (to the HTTP caller for POST); notified: another
\* connection that was sent a server error.
Event(c, w, g, wf, ret, e, cl) ==
    [cmd |-> c, conn |-> w, reg |-> g, wf |-> wf, ret |-> ret, err |-> e,
     notified |-> cl]

Init ==
    /\ rooms = EmptyMap
    /\ registered_clients = EmptyMap
    /\ pc = [w \in Conns |-> "loop"]
    /\ registered = [w \in Conns |-> FALSE]
    /\ rid = [w \in Conns |-> NoStr]
    /\ cid = [w \in Conns |-> NoStr]
    /\ thisClient = [w \in Conns |-> NilClient]
    /\ deferred = [w \in Conns |-> FALSE]
    /\ out = <<>>
    /\ ev = Event("init", NoStr, FALSE, TRUE, "none", NoStr, NoStr)

\* Install the outcome of a Room Table operation.
Commit(res) ==
    /\ rooms' = res.rooms
    /\ registered_clients' = res.dir
    /\ out' = res.out

\* Room r can take one more pending message.
Fits(r) == r \in DOMAIN rooms => Len(rooms[r].queue) < MaxQueue

\* ------------------------------------------------------------- wsHandler
\* wsError(msg, ws) / sendServerErr(ws, msg): the text reported to the connection.
ErrDupRegister == "Duplicated register request"
ErrBadRegister == "Invalid register request: missing 'clientid' or 'roomid'"
ErrNotRegistered == "Client not registered"
ErrBadSend == "Invalid send request: missing 'msg'"
ErrBadCmd == "Invalid message: unexpected 'cmd'"
ErrReceive == "websocket.JSON.Receive error"

\* Mutant of wsReturn: no deferred call was set up.
wsReturnNoDefer(w, rt) == Same(rt, NoStr)

\* The function returns: the deferred deregister(rid, cid), if one was set, runs.
wsReturn(w, rt) ==
    IF deferred[w] THEN rtDeregister(rt, rid[w], cid[w]) ELSE Same(rt, NoStr)

\* `continue`: the event changes nothing and the loop reads the next one.
Continue(w, cmd, wf, e) ==
    /\ ev' = Event(cmd, w, registered[w], wf, "none", e, NoStr)
    /\ out' = <<>>
    /\ UNCHANGED <<rooms, registered_clients, pc, locals>>

\* `break loop`: ws.Close(), then the deferred call; the locals are gone.
BreakLoop(w, cmd, wf, ret, e) ==
    /\ pc' = [pc EXCEPT ![w] = "closed"]
    /\ Commit(wsReturn(w, RT))
    /\ ev' = Event(cmd, w, registered[w], wf, ret, e, NoStr)
    /\ registered' = [registered EXCEPT ![w] = FALSE]
    /\ rid' = [rid EXCEPT ![w] = NoStr]
    /\ cid' = [cid EXCEPT ![w] = NoStr]
    /\ thisClient' = [thisClient EXCEPT ![w] = NilClient]
    /\ deferred' = [deferred EXCEPT ![w] = FALSE]

\* websocket.JSON.Receive (or SetReadDeadline) fails; EOF is not reported.
wsReceiveErr(w, eof) ==
    /\ pc[w] = "loop"
    /\ BreakLoop(w, "recv_err", FALSE, "none", IF eof THEN NoStr ELSE ErrReceive)

\* Mutant of wsRegisterFailed: the error is reported and the loop goes on.
wsRegisterFailedContinue(w, e) ==
    /\ ev' = Event("register", w, registered[w], TRUE, e, e, NoStr)
    /\ out' = <<>>
    /\ UNCHANGED <<rooms, registered_clients, pc, locals>>

\* roomTable.register returned an error.
wsRegisterFailed(w, e) == BreakLoop(w, "register", TRUE, e, e)

\* Mutant of wsRegisterAgain: the duplicate request ends the connection.
wsRegisterAgainBreaks(w, wf) ==
    BreakLoop(w, "register", wf, "none", ErrDupRegister)

\* register on a connection that is already registered: wsError, continue
wsRegisterAgain(w, wf) == Continue(w, "register", wf, ErrDupRegister)

\* Mutant of wsRegisterInvalid: the error is reported and the loop goes on.
wsRegisterInvalidContinue(w) == Continue(w, "register", FALSE, ErrBadRegister)

\* register without a room or client identifier: wsError, break loop
wsRegisterInvalid(w) == BreakLoop(w, "register", FALSE, "none", ErrBadRegister)

\* case "register", up to and including the call of roomTable.register
wsRegister(w, r, c) ==
    /\ pc[w] = "loop"
    /\ IF registered[w] THEN wsRegisterAgain(w, r # NoStr /\ c # NoStr)
       ELSE IF r = NoStr \/ c = NoStr THEN wsRegisterInvalid(w)
       ELSE LET res == rtRegister(RT, r, c, w) IN
            IF res.err # NoStr THEN wsRegisterFailed(w, res.err)
            ELSE /\ Commit(res)
                 /\ registered' = [registered EXCEPT ![w] = TRUE]
                 /\ rid' = [rid EXCEPT ![w] = r]
                 /\ cid' = [cid EXCEPT ![w] = c]
                 /\ pc' = [pc EXCEPT ![w] = "lookup"]
                 /\ ev' = Event("register", w, FALSE, TRUE, "ok", NoStr, NoStr)
                 /\ UNCHANGED <<thisClient, deferred>>

\* case "register", after the call: thisClient = registered_clients[cid]; defer
wsLookup(w) ==
    /\ pc[w] = "lookup"
    /\ thisClient' = [thisClient EXCEPT ![w] =
           IF cid[w] \in DOMAIN registered_clients
           THEN registered_clients[cid[w]] ELSE NilClient]
    /\ deferred' = [deferred EXCEPT ![w] = TRUE]
    /\ pc' = [pc EXCEPT ![w] = "loop"]
    /\ ev' = Event("lookup", w, TRUE, TRUE, "none", NoStr, NoStr)
    /\ out' = <<>>
    /\ UNCHANGED <<rooms, registered_clients, registered, rid, cid>>

\* The error roomTable.send returned, as wsHandler reports it: it is dropped.
wsSendErr(e) == NoStr

\* case "send"
wsSend(w, m) ==
    /\ pc[w] = "loop"
    /\ Fits(rid[w])
    /\ IF thisClient[w] = NilClient THEN Continue(w, "send", m # NoMsg, NoStr)
       ELSE IF ~registered[w]
       THEN BreakLoop(w, "send", m # NoMsg, "none", ErrNotRegistered)
       ELSE IF m = NoMsg THEN BreakLoop(w, "send", FALSE, "none", ErrBadSend)
       ELSE LET res == rtSend(RT, rid[w], cid[w], "send", m) IN
            /\ Commit(res)
            /\ ev' = Event("send", w, registered[w], TRUE,
                           IF res.err = NoStr THEN "ok" ELSE res.err,
                           wsSendErr(res.err), NoStr)
            /\ UNCHANGED <<pc, locals>>

\* Mutant of AncillaryComplete: only the payload is looked at.
AncillaryHasPayload(to, m) == m # NoMsg

\* msg.Msg != "" && msg.To != ""
AncillaryComplete(to, m) == m # NoMsg /\ to # NoStr

\* case "video_chat", "audio_chat", "chat"
wsAncillary(w, kind, to, m) ==
    /\ pc[w] = "loop"
    /\ IF thisClient[w] = NilClient
       THEN Continue(w, "direct", m # NoMsg /\ to # NoStr, NoStr)
       ELSE IF AncillaryComplete(to, m)
       THEN LET res == sendByID(RT, to, kind, m) IN
            /\ Commit(res)
            /\ ev' = Event("direct", w, registered[w], m # NoMsg /\ to # NoStr,
                           IF res.err = NoStr THEN "ok" ELSE res.err,
                           res.err, NoStr)
            /\ UNCHANGED <<pc, locals>>
       ELSE Continue(w, "direct", FALSE, NoStr)

\* Mutant of wsLeave: leaving also clears `registered`.
wsLeaveUnregisters(w) ==
    /\ pc[w] = "loop"
    /\ Commit(rtDeregister(RT, rid[w], cid[w]))
    /\ ev' = Event("leave", w, registered[w], TRUE, "ok", NoStr, NoStr)
    /\ registered' = [registered EXCEPT ![w] = FALSE]
    /\ UNCHANGED <<pc, rid, cid, thisClient, deferred>>

\* case "leave"
wsLeave(w) ==
    /\ pc[w] = "loop"
    /\ Commit(rtDeregister(RT, rid[w], cid[w]))
    /\ ev' = Event("leave", w, registered[w], TRUE, "ok", NoStr, NoStr)
    /\ UNCHANGED <<pc, locals>>

\* default: wsError, then `break` (which leaves the switch, not the loop)
wsUnknown(w) ==
    /\ pc[w] = "loop"
    /\ Continue(w, "unknown", TRUE, ErrBadCmd)

\* ------------------------------------------------------------ httpHandler
\* POST /$ROOMID/$CLIENTID
httpPost(r, c, m) ==
    /\ Fits(r)
    /\ IF m = NoMsg
       THEN /\ ev' = Event("POST", NoStr, FALSE, FALSE, "none",
                            "Empty request body", NoStr)
            /\ out' = <<>>
            /\ UNCHANGED <<rooms, registered_clients, pc, locals>>
       ELSE LET res == rtSend(RT, r, c, "POST", m) IN
            /\ Commit(res)
            /\ ev' = Event("POST", NoStr, FALSE, TRUE,
                           IF res.err = NoStr THEN "ok" ELSE res.err, res.err, NoStr)
            /\ UNCHANGED <<pc, locals>>

\* DELETE /$ROOMID/$CLIENTID
httpDelete(r, c) ==
    /\ IF c = "ALL"
       THEN /\ Commit(rtRemoveRoom(RT, r))
            /\ ev' = Event("DELETE", NoStr, FALSE, TRUE, "ok", NoStr, NoStr)
       ELSE /\ Commit(rtRemove(RT, r, c))
            /\ ev' = Event("DELETE", NoStr, FALSE, TRUE, "ok", NoStr,
                           IF c \in DOMAIN registered_clients
                           THEN registered_clients[c].rwc ELSE NoStr)
    /\ UNCHANGED <<pc, locals>>

\* -------------------------------------------------------- registration timer
\* Mutant of TimerFire: a cancelled timer fires all the same.
TimerFireCancelled(r) ==
    /\ r \in DOMAIN rooms
    /\ Commit(rtRemoveRoom(RT, r))
    /\ ev' = Event("timer", NoStr, FALSE, TRUE, "ok", NoStr,
                   rooms[r].clients[CHOOSE c \in DOMAIN rooms[r].clients : TRUE])
    /\ UNCHANGED <<pc, locals>>

\* The timer of a half-open room fires: teardown as removeRoom, member notified.
TimerFire(r) ==
    /\ r \in DOMAIN rooms
    /\ rooms[r].timer
    /\ Commit(rtRemoveRoom(RT, r))
    /\ ev' = Event("timer", NoStr, FALSE, TRUE, "ok", NoStr,
                   rooms[r].clients[CHOOSE c \in DOMAIN rooms[r].clients : TRUE])
    /\ UNCHANGED <<pc, locals>>

\* ------------------------------------------------------------------- spec
Next ==
    \/ \E w \in TwoConns : \E eof \in BOOLEAN : wsReceiveErr(w, eof)
    \/ \E w \in TwoConns : \E r \in RoomIDs \cup {NoStr} :
           \E c \in TwoClients \cup {NoStr} : wsRegister(w, r, c)
    \/ \E w \in TwoConns : wsLookup(w)
    \/ \E w \in TwoConns : \E m \in Payloads : wsSend(w, m)
    \/ \E w \in TwoConns : \E k \in Ancillary : \E to \in TwoClients \cup {NoStr} :
           \E m \in Payloads : wsAncillary(w, k, to, m)
    \/ \E w \in TwoConns : wsLeave(w)
    \/ \E w \in TwoConns : wsUnknown(w)
    \/ \E r \in RoomIDs \cup {NoStr} : \E c \in TwoClients \cup {NoStr} :
           \E m \in Payloads : httpPost(r, c, m)
    \/ \E r \in RoomIDs \cup {NoStr} : \E c \in TwoClients \cup {NoStr, "ALL"} :
           httpDelete(r, c)
    \/ \E r \in RoomIDs : TimerFire(r)

Spec == Init /\ [][Next]_vars

\* A started timer that is not cancelled does fire.
FairSpec == Spec /\ \A r \in RoomIDs : WF_vars(TimerFire(r))

\* The steps that change room membership or relay through a room, from three
\* connections.
NextRooms ==
    \/ \E w \in Conns : wsReceiveErr(w, TRUE)
    \/ \E w \in Conns : \E r \in OneRoom : \E c \in ClientIDs : wsRegister(w, r, c)
    \/ \E w \in Conns : wsLookup(w)
    \/ \E w \in Conns : wsSend(w, 1)
    \/ \E w \in Conns : wsLeave(w)
    \/ \E r \in OneRoom : \E c \in ClientIDs : httpPost(r, c, 1)
    \/ \E r \in OneRoom : \E c \in ClientIDs \cup {"ALL"} : httpDelete(r, c)
    \/ \E r \in OneRoom : TimerFire(r)

SpecRooms == Init /\ [][NextRooms]_vars

\* ----------------------------------------------------------------- claims
\* The entries connection w made: Directory records and Room members bound to w.
Owns(w) ==
    \/ \E c \in DOMAIN registered_clients : registered_clients[c].rwc = w
    \/ \E r \in DOMAIN rooms : \E c \in DOMAIN rooms[r].clients :
           rooms[r].clients[c] = w

\* The registration (rid, cid) of connection w is in its room.
InRoom(w) == cid[w] \in Members(rooms, rid[w])

\* C1: once the dispatch loop of a connection has ended, whatever ended it, no
\* Directory entry and no Room member is bound to that connection.
C1_NoDanglingEntry == \A w \in Conns : pc[w] = "closed" => ~Owns(w)

\* A registered connection was just ended by a fatal protocol error.
C1_Witness ==
    /\ ev.cmd = "send" /\ ev.reg /\ ev.err = ErrBadSend
    /\ pc[ev.conn] = "closed"

\* C2 (as claimed): an unrecognized command is fatal in every connection state:
\* the error is reported and the connection is closed.
C2_UnknownIsFatal ==
    ev.cmd = "unknown" => ev.err # NoStr /\ pc[ev.conn] = "closed"

\* C3 (as claimed): a register with non-empty identifiers that follows a leave
\* on a Registered connection is passed to the Room Table and is not rejected
\* as a duplicate registration of the connection.
C3_ReRegisterAllowed ==
    [][(/\ ev.cmd = "leave" /\ ev.reg
        /\ ev'.cmd = "register" /\ ev'.conn = ev.conn /\ ev'.wf)
       => ev'.ret # "none" /\ ev'.err # ErrDupRegister]_vars

\* C3 (amended): a leave on a Registered connection takes its client out of its
\* room and leaves the connection open and still marked registered; `registered`
\* is never cleared while the connection is open, so every later register on it
\* is rejected as a duplicate without reaching the Room Table.
C3_LeaveKeepsRegistered ==
    /\ [](ev.cmd = "leave" /\ ev.reg =>
            /\ pc[ev.conn] = "loop"
            /\ registered[ev.conn]
            /\ ~InRoom(ev.conn))
    /\ [](ev.cmd = "register" /\ ev.reg =>
            /\ ev.ret = "none" /\ ev.err = ErrDupRegister
            /\ pc[ev.conn] = "loop")
    /\ [][\A w \in Conns :
            registered[w] /\ pc'[w] # "closed" => registered'[w]]_vars

\* A well-formed register was rejected as a duplicate on a connection whose own
\* registration is gone from its room.
C3_Witness ==
    /\ ev.cmd = "register" /\ ev.reg /\ ev.wf /\ ev.err = ErrDupRegister
    /\ ~InRoom(ev.conn)

\* C4 (as claimed): on an Unregistered connection send, the ancillary commands
\* and leave are rejected with an error reported to the connection, change
\* neither the Room Table nor the Directory, and leave it open and Unregistered.
C4_UnregisteredRejected ==
    [][(ev'.cmd \in {"send", "direct", "leave"} /\ ~ev'.reg) =>
          /\ ev'.err # NoStr
          /\ UNCHANGED <<rooms, registered_clients>>
          /\ pc'[ev'.conn] = "loop"
          /\ ~registered'[ev'.conn]]_vars

\* C5 (as claimed): a routing error returned while handling a command of a
\* Registered connection is reported to that connection, which stays open.
C5_RoutingErrorReported ==
    (ev.cmd \in {"send", "direct"} /\ ev.reg
        /\ ev.ret \in {"NotRegistered", "PeerOffline"})
    => ev.err # NoStr /\ pc[ev.conn] = "loop"

\* C6 (as claimed): a register rejected by the Room Table with
\* DuplicateRegistration is reported and the connection is not terminated.
C6_DuplicateNotFatal ==
    (ev.cmd = "register" /\ ev.ret = "DuplicateRegistration")
    => ev.err # NoStr /\ pc[ev.conn] = "loop"

\* C6 (amended): every register the Room Table rejects, DuplicateRegistration
\* included, is reported to the originating connection with the error returned
\* and ends it: the connection is closed and nothing is registered for it.
C6_RegisterErrorFatal ==
    (ev.cmd = "register" /\ ev.ret \notin {"none", "ok"})
    => /\ ev.err = ev.ret
       /\ pc[ev.conn] = "closed"
       /\ ~Owns(ev.conn)

\* The Room Table just rejected a register with DuplicateRegistration.
C6_Witness == ev.cmd = "register" /\ ev.ret = "DuplicateRegistration"

\* C7: every Room has at most two members (and at least one); its timer is
\* armed exactly while it has one; a registration never displaces a member
\* already there, so two registrations to an empty room are first and second.
C7_AtMostTwoMembers ==
    /\ [](\A r \in DOMAIN rooms :
            /\ Cardinality(Members(rooms, r)) \in {1, 2}
            /\ rooms[r].timer <=> Cardinality(Members(rooms, r)) = 1)
    /\ [][(ev'.cmd = "register" /\ ev'.ret = "ok") =>
            LET r == rid'[ev'.conn] IN
            /\ \A q \in DOMAIN rooms : Members(rooms, q) \subseteq Members(rooms', q)
            /\ Members(rooms', r) = Members(rooms, r) \cup {cid'[ev'.conn]}
            /\ r \in DOMAIN rooms => Cardinality(Members(rooms, r)) = 1]_vars

\* A third registration was refused by a room that has its two members.
C7_Witness ==
    /\ ev.cmd = "register" /\ ev.ret = "RoomFull"
    /\ \E r \in DOMAIN rooms : Cardinality(Members(rooms, r)) = 2

IsPrefix(a, b) == Len(a) <= Len(b) /\ SubSeq(b, 1, Len(a)) = a

\* C8: a message sent to a half-open room goes to the tail of its queue and is
\* written to nobody; the registration of the second member writes the whole
\* queue to that member, oldest first, each message once, and empties it; a
\* message is written directly only to a room whose queue is empty, so after
\* the queued ones.
C8_QueueFifoDrain ==
    /\ [](\A r \in DOMAIN rooms :
            Cardinality(Members(rooms, r)) = 2 => rooms[r].queue = <<>>)
    /\ [][/\ (ev'.cmd = "register" /\ ev'.ret = "ok") =>
               LET w == ev'.conn
                   r == rid'[w]
                   q == IF r \in DOMAIN rooms THEN rooms[r].queue ELSE <<>> IN
               /\ out' = [i \in 1..Len(q) |->
                             [to |-> w, kind |-> q[i].kind, msg |-> q[i].msg]]
               /\ rooms'[r].queue = <<>>
          /\ ev'.cmd # "register" =>
               \A r \in DOMAIN rooms \cap DOMAIN rooms' :
                   /\ IsPrefix(rooms[r].queue, rooms'[r].queue)
                   /\ Len(rooms'[r].queue) <= Len(rooms[r].queue) + 1
          /\ (ev'.cmd \in {"send", "POST"} /\ ev'.ret = "ok") =>
               \/ /\ out' = <<>>
                  /\ \E r \in DOMAIN rooms :
                       /\ Cardinality(Members(rooms, r)) = 1
                       /\ rooms' = [rooms EXCEPT ![r].queue =
                                       Append(@, [kind |-> ev'.cmd, msg |-> 1])]
               \/ /\ Len(out') = 1
                  /\ UNCHANGED rooms
                  /\ \E r \in DOMAIN rooms : \E c \in DOMAIN rooms[r].clients :
                       /\ rooms[r].clients[c] = out'[1].to
                       /\ Cardinality(Members(rooms, r)) = 2]_vars

\* The second member just registered and was written two different pending
\* messages.
C8_Witness ==
    /\ ev.cmd = "register" /\ ev.ret = "ok"
    /\ Len(out) = 2 /\ out[1] # out[2]

\* C9: every Directory entry is filed under its own ClientID and names exactly
\* one Room, which has that client as a member on the same connection; every
\* Room member has a Directory entry.
C9_DirectoryMatchesRooms ==
    /\ \A c \in DOMAIN registered_clients :
         LET e == registered_clients[c] IN
         /\ e.id = c
         /\ c \in Members(rooms, e.room)
         /\ rooms[e.room].clients[c] = e.rwc
         /\ \A r \in DOMAIN rooms : c \in Members(rooms, r) => r = e.room
    /\ \A r \in DOMAIN rooms : Members(rooms, r) \subseteq DOMAIN registered_clients

\* Two clients are registered, in different rooms.
C9_Witness ==
    \E c, d \in DOMAIN registered_clients :
        registered_clients[c].room # registered_clients[d].room

HalfOpen(r) == r \in DOMAIN rooms /\ Cardinality(Members(rooms, r)) = 1

\* C10: the timer of a Room is armed exactly while it is half-open; when it
\* fires, the Room with its queue and its sole member's Directory entry are
\* deleted, that member is notified and its connection is left open; nothing
\* else is deleted, so a cancelled timer deletes no room; and no room stays
\* half-open for ever: its timer fires unless the room is joined or torn down.
C10_TimerDeletesHalfOpenRoom ==
    /\ \A r \in RoomIDs : HalfOpen(r) ~> ~HalfOpen(r)
    /\ [](\A r \in DOMAIN rooms :
            rooms[r].timer <=> Cardinality(Members(rooms, r)) = 1)
    /\ [][ev'.cmd = "timer" =>
            \E r \in DOMAIN rooms : \E c \in DOMAIN rooms[r].clients :
                /\ rooms[r].timer
                /\ Members(rooms, r) = {c}
                /\ rooms' = Drop(rooms, {r})
                /\ registered_clients' = Drop(registered_clients, {c})
                /\ ev'.notified = rooms[r].clients[c]
                /\ pc[ev'.notified] # "closed"
                /\ pc' = pc]_vars

\* The timer just fired on a room whose member had queued a message; the
\* member's connection is still in its dispatch loop.
C10_Witness ==
    /\ ev.cmd = "timer"
    /\ pc[ev.notified] = "loop" /\ registered[ev.notified]
    /\ ~InRoom(ev.notified)

\* C11: a register on a connection that is already Registered is rejected as
\* a duplicate without a call of the Room Table; the connection's identifiers
\* and client record, the Rooms and the Directory are unchanged, nothing is
\* written to any connection, and the connection stays open.
C11_RegisterAgainChangesNothing ==
    [][(ev'.cmd = "register" /\ ev'.reg) =>
          /\ ev'.err = ErrDupRegister
          /\ ev'.ret = "none"
          /\ out' = <<>>
          /\ UNCHANGED <<rooms, registered_clients, pc, locals>>
          /\ pc'[ev'.conn] = "loop"]_vars

\* A register was just rejected on a connection whose registration is in place.
C11_Witness ==
    /\ ev.cmd = "register" /\ ev.reg /\ ev.wf
    /\ InRoom(ev.conn)
    /\ registered_clients[cid[ev.conn]].rwc = ev.conn

\* C12: a register without a room or client identifier on an Unregistered
\* connection is reported, ends the dispatch and closes the connection; the
\* Room Table is not called and no Room or Directory entry is created.
C12_RegisterInvalidFatal ==
    [][(ev'.cmd = "register" /\ ~ev'.reg /\ ~ev'.wf) =>
          /\ ev'.err = ErrBadRegister
          /\ ev'.ret = "none"
          /\ pc'[ev'.conn] = "closed"
          /\ UNCHANGED <<rooms, registered_clients>>]_vars

\* An Unregistered connection was just closed for a register without identifiers.
C12_Witness ==
    /\ ev.cmd = "register" /\ ~ev.reg /\ ~ev.wf
    /\ pc[ev.conn] = "closed"

\* C13: on a Registered connection a send with a payload goes through the Room
\* Table's send with the connection's own (rid, cid), and a send without a
\* payload is reported, relays and queues nothing, and ends the dispatch.
C13_SendRelayedOrFatal ==
    [][(ev'.cmd = "send" /\ ev'.reg) =>
          LET w == ev'.conn IN
          IF ev'.wf
          THEN LET res == rtSend([rooms |-> rooms, dir |-> registered_clients,
                                  out |-> <<>>, err |-> NoStr],
                                 rid[w], cid[w], "send", 1) IN
               /\ ev'.ret # "none"
               /\ rooms' = res.rooms
               /\ out' = res.out
          ELSE /\ ev'.err = ErrBadSend
               /\ pc'[w] = "closed"
               /\ out' = <<>>
               /\ \A r \in DOMAIN rooms' :
                      /\ r \in DOMAIN rooms
                      /\ Len(rooms'[r].queue) <= Len(rooms[r].queue)]_vars

\* C14: on a Registered connection an ancillary command without a target or
\* without a payload does nothing: sendByID is not called, nothing is written to
\* any connection, no error is reported, the Rooms, the Directory and the
\* connection's own state are unchanged, and the connection stays open.
C14_AncillaryIncompleteNoOp ==
    [][(ev'.cmd = "direct" /\ ev'.reg /\ ~ev'.wf) =>
          /\ ev'.ret = "none"
          /\ ev'.err = NoStr
          /\ out' = <<>>
          /\ UNCHANGED <<rooms, registered_clients, pc, locals>>
          /\ pc'[ev'.conn] = "loop"
          /\ registered'[ev'.conn]]_vars

\* An incomplete ancillary command was just ignored on a connection that holds
\* its client record while a possible target is in the Directory.
C14_Witness ==
    /\ ev.cmd = "direct" /\ ev.reg /\ ~ev.wf
    /\ thisClient[ev.conn] # NilClient
    /\ \E c \in DOMAIN registered_clients : registered_clients[c].rwc # ev.conn

\* Connection w takes the step from s to s' and in it either handles a leave
\* or ends its dispatch: the two places where it calls deregister(rid, cid).
Deregisters(w) ==
    /\ ev'.conn = w
    /\ \/ ev'.cmd = "leave"
       \/ pc[w] = "loop" /\ pc'[w] = "closed"

\* C15: a registered connection that leaves or ends, on whatever path, calls
\* deregister for its (rid, cid): afterwards no Room member and no Directory
\* entry is bound to it, and when its registration was already gone the call
\* changes neither the Rooms nor the Directory.
C15_DeregisterOnceOnEveryPath ==
    [][\A w \in Conns : (Deregisters(w) /\ registered[w]) =>
          /\ deferred[w]
          /\ ~Owns(w)'
          /\ ~Owns(w) => UNCHANGED <<rooms, registered_clients>>]_vars

\* C16: the deregister a connection performs on leave or when it ends never
\* takes away a Directory entry or a Room membership that is bound to another
\* connection.
C16_DeregisterOnlyOwnRegistration ==
    [][\A w \in Conns : Deregisters(w) =>
          \A c \in DOMAIN registered_clients :
              LET e == registered_clients[c] IN
              e.rwc # w =>
                 /\ c \in DOMAIN registered_clients'
                 /\ registered_clients'[c] = e
                 /\ c \in Members(rooms', e.room)
                 /\ rooms'[e.room].clients[c] = e.rwc]_vars

\* C17: whenever a registered connection is ready to take a command, the client
\* record it holds is the one its own register call put in the Directory: the
\* record of (rid, cid) bound to this connection, never nil and never another
\* connection's.
C17_ClientRecordIsOwn ==
    \A w \in Conns : (pc[w] = "loop" /\ registered[w]) =>
        thisClient[w] = [id |-> cid[w], room |-> rid[w], rwc |-> w]

\* C18: an ancillary command writes to a target only when the client registered
\* by the sending connection is in the Directory and bound to that connection.
C18_DirectOnlyWhileInDirectory ==
    [][(ev'.cmd = "direct" /\ out' # <<>>) =>
          LET w == ev'.conn IN
          /\ cid[w] \in DOMAIN registered_clients
          /\ registered_clients[cid[w]].rwc = w]_vars

\* C19: a DELETE of one client sends YOU_ARE_OFFLINE to a connection only if
\* the client bound to it is a member of the room named and the same request
\* takes it out of that room and of the Directory.
C19_DeleteNotifiesOnlyRemoved ==
    [][(ev'.cmd = "DELETE" /\ ev'.notified # NoStr) =>
          \E r \in DOMAIN rooms : \E c \in DOMAIN rooms[r].clients :
              /\ rooms[r].clients[c] = ev'.notified
              /\ c \notin Members(rooms', r)
              /\ c \notin DOMAIN registered_clients']_vars

====
